---- MODULE Spec2Model ----
(***************************************************************************)
(* Model of neuromorphovis/interface/ui/analysis_panel.py: the analysis    *)
(* panel (AnalysisPanel.draw), the two operators                           *)
(* (AnalyzeMorphology.execute, ExportAnalysisResults.execute) and the      *)
(* registration functions (register_panel, unregister_panel).              *)
(*                                                                         *)
(* Python objects that are shared by reference (nmv.interface.ui_options   *)
(* and its io sub-object) live in a heap, so that copy.deepcopy and the    *)
(* passing of a reference are different things in the model.               *)
(***************************************************************************)
EXTENDS Integers, Sequences, FiniteSets

\* Bounds of the model.
NumMorphologies == 2
NumPaths == 2

\* Python's None; morphologies and paths are positive numbers.
None == 0
Morphologies == 1 .. NumMorphologies
Paths == 1 .. NumPaths

\* The three classes of this file, as the host registry knows them.
Classes == {"AnalysisPanel", "AnalyzeMorphology", "ExportAnalysisResults"}

\* Messages reported to the host.
SELECT_MORPHOLOGY == "Please select a morphology file"
CORRUPTED_MORPHOLOGY == "Corrupted morphology and cannot be analysed!"
PATH_NOT_SET == "PATH_NOT_SET"
INVALID_OUTPUT_PATH == "INVALID_OUTPUT_PATH"

VARIABLES
    MorphologyAnalyzed,  \* bpy.types.Scene.MorphologyAnalyzed
    ui_morphology,       \* nmv.interface.ui_morphology
    heap,                \* the objects reachable from nmv.interface.ui_options
    OutputDirectory,     \* context.scene.OutputDirectory
    fs,                  \* the directories that exist on disk
    written,             \* the directories that hold exported results
    registry,            \* the classes registered in the host
    \* What the last operation did. The locals of a handler do not outlive
    \* it: each operation sets all of these, to their defaults when it does
    \* not use them.
    lastOp,              \* the operation that produced this state
    loading_result,      \* loading_result of the analyze operator
    analysis_result,     \* what analyze_morphology returned to it
    reports,             \* the self.report calls of the operation
    calls,               \* the collaborator calls of the operation, in order
    status,              \* the value the operation returned to the host
    layout,              \* self.layout at the end of draw
    sketch_before,       \* the shared options right before the sketch call
    sketch_after,        \* the shared options right after the sketch call
    sketch_options       \* the options the sketch call was given, after it

vars == <<MorphologyAnalyzed, ui_morphology, heap, OutputDirectory, fs, written,
          registry, lastOp, loading_result, analysis_result, reports, calls,
          status, layout, sketch_before, sketch_after, sketch_options>>

----------------------------------------------------------------------------
\* The heap of option objects.

\* nmv.interface.ui_options is a module-level name bound to one object.
ui_options == 1
Refs == 1 .. 4

Free == [kind |-> "free", io |-> None, output_directory |-> None,
         analysis_directory |-> None]

OptionsObject(ioRef) ==
    [kind |-> "options", io |-> ioRef, output_directory |-> None,
     analysis_directory |-> None]

IoObject(out, ana) ==
    [kind |-> "io", io |-> None, output_directory |-> out,
     analysis_directory |-> ana]

\* The value of the shared options: the object and the io object it refers to.
Snapshot(h) == <<h[ui_options], h[h[ui_options].io]>>

Call(f, m, d, o) == [fn |-> f, morphology |-> m, directory |-> d, options |-> o]

Report(sev, msg) == [severity |-> sev, message |-> msg]

Item(kind, m) == [item |-> kind, morphology |-> m]

\* self.layout as the host hands it to draw
EmptyLayout == [enabled |-> TRUE, items |-> <<>>]

\* The running state of one handler: the globals it may write and what it
\* has reported, called and returned so far.
Begin ==
    [analyzed |-> MorphologyAnalyzed, heap |-> heap, fs |-> fs,
     written |-> written, registry |-> registry, reports |-> <<>>, calls |-> <<>>,
     status |-> "RUNNING", before |-> <<>>, after |-> <<>>, given |-> <<>>]

----------------------------------------------------------------------------
\* Collaborators of the analyze operator.

\* nmv.interface.ui.load_morphology: what it returns (None, or the loaded
\* morphology) and what it leaves in nmv.interface.ui_morphology. It may set
\* or clear ui_morphology whatever it returns.
load_morphology ==
    [result : {None} \cup Morphologies, morphology : {None} \cup Morphologies]

\* copy.deepcopy of the object r: a new options object with a new io object.
deepcopy(h, r) ==
    [heap |-> [h EXCEPT ![3] = [h[r] EXCEPT !.io = 4], ![4] = h[h[r].io]],
     ref |-> 3]

\* The temporaries of a handler are dropped when it returns.
Release(h) == [r \in Refs |-> IF r \in {ui_options, h[ui_options].io} THEN h[r] ELSE Free]

\* What the sketch routine may do to the options object it is given.
NoMutation == [field |-> "none", value |-> None]

SketchMutations ==
    {NoMutation, [field |-> "output_directory", value |-> None]}
    \cup {[field |-> "analysis_directory", value |-> v] : v \in Paths}

sketch_morphology_skeleton_guide(h, options, mut) ==
    LET io == h[options].io IN
    CASE mut.field = "output_directory" ->
           [h EXCEPT ![io].output_directory = mut.value]
      [] mut.field = "analysis_directory" ->
           [h EXCEPT ![io].analysis_directory = mut.value]
      [] OTHER -> h

----------------------------------------------------------------------------
\* AnalyzeMorphology.execute

\* Variant: a failed load also clears the flag.
OnLoadFailureClearsFlag(s) ==
    [s EXCEPT !.analyzed = FALSE,
              !.reports = Append(s.reports, Report("ERROR", SELECT_MORPHOLOGY)),
              !.status = "FINISHED"]

\* if loading_result is None: report and return
OnLoadFailure(s) ==
    [s EXCEPT !.reports = Append(s.reports, Report("ERROR", SELECT_MORPHOLOGY)),
              !.status = "FINISHED"]

\* Variant: the shared options object itself is passed.
SketchOptionsShared(h) == [heap |-> h, ref |-> ui_options]

\* options=copy.deepcopy(nmv.interface.ui_options)
SketchOptions(h) == deepcopy(h, ui_options)

\* nmv.interface.ui.sketch_morphology_skeleton_guide(morphology=..., options=...)
SketchStep(s, m, mut) ==
    LET c == SketchOptions(s.heap)
        h2 == sketch_morphology_skeleton_guide(c.heap, c.ref, mut)
    IN [s EXCEPT !.before = Snapshot(s.heap),
                 !.after = Snapshot(h2),
                 !.given = <<h2[c.ref], h2[h2[c.ref].io]>>,
                 !.heap = h2,
                 !.calls = Append(s.calls,
                     Call("sketch_morphology_skeleton_guide", m, None, c.ref))]

\* Variant: the flag is only ever raised, never lowered.
AnalysisStepSticky(s, m, analysed) ==
    LET s1 == [s EXCEPT !.analyzed = s.analyzed \/ analysed,
                        !.calls = Append(s.calls,
                            Call("analyze_morphology", m, None, None))]
        s2 == IF ~ s1.analyzed
              THEN [s1 EXCEPT !.reports =
                        Append(s1.reports, Report("WARNING", CORRUPTED_MORPHOLOGY))]
              ELSE s1
    IN [s2 EXCEPT !.status = "FINISHED"]

\* context.scene.MorphologyAnalyzed = nmv.interface.analyze_morphology(...),
\* the warning and the return
AnalysisStep(s, m, analysed) ==
    LET s1 == [s EXCEPT !.analyzed = analysed,
                        !.calls = Append(s.calls,
                            Call("analyze_morphology", m, None, None))]
        s2 == IF ~ s1.analyzed
              THEN [s1 EXCEPT !.reports =
                        Append(s1.reports, Report("WARNING", CORRUPTED_MORPHOLOGY))]
              ELSE s1
    IN [s2 EXCEPT !.status = "FINISHED"]

\* The whole handler, given what the loader returned (result) and left in
\* nmv.interface.ui_morphology (m).
AnalyzeOutcome(result, m, mut, analysed) ==
    IF result = None
    THEN OnLoadFailure(Begin)
    ELSE AnalysisStep(SketchStep(Begin, m, mut), m, analysed)

\* The handler's effects on the state, given its outcome.
AnalyzeEffects(result, m, analysed, out) ==
    /\ ui_morphology' = m
    /\ loading_result' = result
    /\ analysis_result' = analysed
    /\ MorphologyAnalyzed' = out.analyzed
    /\ heap' = Release(out.heap)
    /\ reports' = out.reports
    /\ calls' = out.calls
    /\ status' = out.status
    /\ sketch_before' = out.before
    /\ sketch_after' = out.after
    /\ sketch_options' = out.given
    /\ lastOp' = "analyze"
    /\ layout' = EmptyLayout
    /\ UNCHANGED <<OutputDirectory, fs, written, registry>>

\* The loader's outcome is ld; the sketch routine applies mut to its options;
\* analyze_morphology returns analysed.
AnalyzeMorphology_execute ==
    /\ "AnalyzeMorphology" \in registry
    /\ \E ld \in load_morphology :
          IF ld.result = None
          THEN AnalyzeEffects(ld.result, ld.morphology, FALSE,
                  AnalyzeOutcome(ld.result, ld.morphology, NoMutation, FALSE))
          ELSE \E mut \in SketchMutations, analysed \in BOOLEAN :
                  AnalyzeEffects(ld.result, ld.morphology, analysed,
                      AnalyzeOutcome(ld.result, ld.morphology, mut, analysed))

----------------------------------------------------------------------------
\* Collaborators of the export operator.

\* nmv.file.ops.path_exists
path_exists(dirs, p) == p \in dirs

\* nmv.logger.log
log(s, p) == [s EXCEPT !.calls = Append(s.calls, Call("log", None, p, None))]

\* nmv.file.ops.clean_and_create_directory: the directory exists and is empty.
clean_and_create_directory(s, p) ==
    [s EXCEPT !.fs = s.fs \cup {p},
              !.written = s.written \ {p},
              !.calls = Append(s.calls,
                  Call("clean_and_create_directory", None, p, None))]

\* nmv.interface.ui.export_analysis_results: writes the results into d.
export_analysis_results(s, m, d) ==
    [s EXCEPT !.written = s.written \cup {d},
              !.calls = Append(s.calls,
                  Call("export_analysis_results", m, d, None))]

----------------------------------------------------------------------------
\* ExportAnalysisResults.execute

\* nmv.interface.ui_options.io
Io(h) == h[h[ui_options].io]

\* if nmv.interface.ui_options.io.output_directory is None: report and return
OnPathNotSet(s) ==
    [s EXCEPT !.reports = Append(s.reports, Report("ERROR", PATH_NOT_SET)),
              !.status = "FINISHED"]

\* Variant: the invalid output path is not reported.
OnInvalidOutputPathSilent(s) == [s EXCEPT !.status = "FINISHED"]

\* if not path_exists(context.scene.OutputDirectory): report and return
OnInvalidOutputPath(s) ==
    [s EXCEPT !.reports = Append(s.reports, Report("ERROR", INVALID_OUTPUT_PATH)),
              !.status = "FINISHED"]

\* Variant: the analysis directory is cleaned and created on every export.
EnsureAnalysisDirectoryAlways(s, d) == clean_and_create_directory(s, d)

\* Create the analysis directory if it does not exist
EnsureAnalysisDirectory(s, d) ==
    IF ~ path_exists(s.fs, d) THEN clean_and_create_directory(s, d) ELSE s

\* Export the analysis results and return
ExportStep(s, m, d) ==
    [export_analysis_results(s, m, d) EXCEPT !.status = "FINISHED"]

\* Variant: the scene's output directory is not checked.
PathChecksNoExistence(s, out, scenePath) ==
    IF out = None THEN "path_not_set" ELSE "ok"

\* The two path checks, in the order of the code.
PathChecks(s, out, scenePath) ==
    IF out = None
    THEN "path_not_set"
    ELSE IF ~ path_exists(s.fs, scenePath)
         THEN "invalid_output_path"
         ELSE "ok"

ExportOutcome ==
    LET out == Io(heap).output_directory
        d == Io(heap).analysis_directory
        check == PathChecks(Begin, out, OutputDirectory)
    IN CASE check = "path_not_set" -> OnPathNotSet(Begin)
         [] check = "invalid_output_path" ->
              OnInvalidOutputPath(log(Begin, OutputDirectory))
         [] OTHER ->
              ExportStep(EnsureAnalysisDirectory(log(Begin, OutputDirectory), d),
                         ui_morphology, d)

ExportAnalysisResults_execute ==
    /\ "ExportAnalysisResults" \in registry
    /\ LET out == ExportOutcome IN
          /\ fs' = out.fs
          /\ written' = out.written
          /\ reports' = out.reports
          /\ calls' = out.calls
          /\ status' = out.status
    /\ lastOp' = "export"
    /\ loading_result' = None
    /\ analysis_result' = FALSE
    /\ layout' = EmptyLayout
    /\ sketch_before' = <<>>
    /\ sketch_after' = <<>>
    /\ sketch_options' = <<>>
    /\ UNCHANGED <<MorphologyAnalyzed, ui_morphology, heap, OutputDirectory,
                   registry>>

----------------------------------------------------------------------------
\* AnalysisPanel.draw

\* analyze_morphology_column.operator('analyze.morphology', ...)
AddAnalyzeButton(l) ==
    [l EXCEPT !.items = Append(l.items, Item("operator:analyze.morphology", None))]

\* nmv.interface.add_analysis_groups_to_panel(morphology=..., layout=...)
add_analysis_groups_to_panel(l, m) ==
    [l EXCEPT !.items = Append(l.items, Item("analysis_groups", m))]

\* export_analysis_row.operator('export.analysis_results', ...)
AddExportButton(l) ==
    [l EXCEPT !.items = Append(l.items, Item("operator:export.analysis_results", None))]

\* Variant: the results are drawn whenever a morphology is loaded.
AddResultsWhenLoaded(l, analyzed, m) ==
    IF m # None THEN AddExportButton(add_analysis_groups_to_panel(l, m)) ELSE l

\* if context.scene.MorphologyAnalyzed: the groups and the export button
AddResults(l, analyzed, m) ==
    IF analyzed THEN AddExportButton(add_analysis_groups_to_panel(l, m)) ELSE l

\* Variant: the check is the else branch of the analyzed check.
DisableIfNotLoadedElse(l, m) ==
    IF m = None /\ Len(l.items) = 1 THEN [l EXCEPT !.enabled = FALSE] ELSE l

\* if nmv.interface.ui_morphology is None: layout.enabled = False
DisableIfNotLoaded(l, m) ==
    IF m = None THEN [l EXCEPT !.enabled = FALSE] ELSE l

DrawLayout(analyzed, m) ==
    DisableIfNotLoaded(AddResults(AddAnalyzeButton(EmptyLayout), analyzed, m), m)

draw ==
    /\ "AnalysisPanel" \in registry
    /\ layout' = DrawLayout(MorphologyAnalyzed, ui_morphology)
    /\ lastOp' = "draw"
    /\ loading_result' = None
    /\ analysis_result' = FALSE
    /\ reports' = <<>>
    /\ calls' = <<>>
    /\ status' = "None"
    /\ sketch_before' = <<>>
    /\ sketch_after' = <<>>
    /\ sketch_options' = <<>>
    /\ UNCHANGED <<MorphologyAnalyzed, ui_morphology, heap, OutputDirectory, fs,
                   written, registry>>

----------------------------------------------------------------------------
\* register_panel and unregister_panel

\* bpy.utils.register_class
register_class(s, cls) ==
    [s EXCEPT !.registry = s.registry \cup {cls},
              !.calls = Append(s.calls, Call("register_class:" \o cls, None, None, None))]

\* bpy.utils.unregister_class
unregister_class(s, cls) ==
    [s EXCEPT !.registry = s.registry \ {cls},
              !.calls = Append(s.calls, Call("unregister_class:" \o cls, None, None, None))]

RegisterOutcome ==
    register_class(
        register_class(
            register_class(Begin, "AnalysisPanel"),
            "AnalyzeMorphology"),
        "ExportAnalysisResults")

\* Variant: the classes are removed in reverse order.
UnregisterOutcomeReversed ==
    unregister_class(
        unregister_class(
            unregister_class(Begin, "ExportAnalysisResults"),
            "AnalyzeMorphology"),
        "AnalysisPanel")

UnregisterOutcome ==
    unregister_class(
        unregister_class(
            unregister_class(Begin, "AnalysisPanel"),
            "AnalyzeMorphology"),
        "ExportAnalysisResults")

\* The host enables an add-on that is not enabled.
register_panel ==
    /\ registry \cap Classes = {}
    /\ registry' = RegisterOutcome.registry
    /\ calls' = RegisterOutcome.calls
    /\ reports' = <<>>
    /\ status' = "None"
    /\ lastOp' = "register"
    /\ loading_result' = None
    /\ analysis_result' = FALSE
    /\ layout' = EmptyLayout
    /\ sketch_before' = <<>>
    /\ sketch_after' = <<>>
    /\ sketch_options' = <<>>
    /\ UNCHANGED <<MorphologyAnalyzed, ui_morphology, heap, OutputDirectory, fs,
                   written>>

\* The host disables an add-on that is enabled.
unregister_panel ==
    /\ Classes \subseteq registry
    /\ registry' = UnregisterOutcome.registry
    /\ calls' = UnregisterOutcome.calls
    /\ reports' = <<>>
    /\ status' = "None"
    /\ lastOp' = "unregister"
    /\ loading_result' = None
    /\ analysis_result' = FALSE
    /\ layout' = EmptyLayout
    /\ sketch_before' = <<>>
    /\ sketch_after' = <<>>
    /\ sketch_options' = <<>>
    /\ UNCHANGED <<MorphologyAnalyzed, ui_morphology, heap, OutputDirectory, fs,
                   written>>

----------------------------------------------------------------------------
\* The state after the module is imported. The options, the scene's output
\* directory and the disk are set outside this file: every combination.
Init ==
    /\ MorphologyAnalyzed = FALSE
    /\ ui_morphology = None
    /\ \E out \in {None} \cup Paths, ana \in Paths :
          heap = [r \in Refs |->
                    IF r = ui_options THEN OptionsObject(2)
                    ELSE IF r = 2 THEN IoObject(out, ana)
                    ELSE Free]
    /\ OutputDirectory \in Paths
    /\ fs \in SUBSET Paths
    /\ written = {}
    /\ registry = {}
    /\ lastOp = "init"
    /\ loading_result = None
    /\ analysis_result = FALSE
    /\ reports = <<>>
    /\ calls = <<>>
    /\ status = "None"
    /\ layout = EmptyLayout
    /\ sketch_before = <<>>
    /\ sketch_after = <<>>
    /\ sketch_options = <<>>

Next ==
    \/ AnalyzeMorphology_execute
    \/ ExportAnalysisResults_execute
    \/ draw
    \/ register_panel
    \/ unregister_panel

Spec == Init /\ [][Next]_vars

----------------------------------------------------------------------------
\* Properties

SketchOrAnalysisCalled(cs) ==
    \E i \in DOMAIN cs :
        cs[i].fn \in {"sketch_morphology_skeleton_guide", "analyze_morphology"}

WriteCalls(cs) ==
    SelectSeq(cs, LAMBDA c :
        c.fn \in {"clean_and_create_directory", "export_analysis_results"})

\* C1: an analyze whose loader returns None reports the one ERROR 'Please
\* select a morphology file', leaves MorphologyAnalyzed at the value it had
\* before, and calls neither the sketch routine nor the analysis routine.
C1_LoadFailureKeepsFlag ==
    [][(lastOp' = "analyze" /\ loading_result' = None) =>
          /\ reports' = <<Report("ERROR", SELECT_MORPHOLOGY)>>
          /\ MorphologyAnalyzed' = MorphologyAnalyzed
          /\ ~ SketchOrAnalysisCalled(calls')]_vars

\* A failed load after a successful analysis: the flag is still true.
C1_Witness ==
    /\ lastOp = "analyze"
    /\ loading_result = None
    /\ MorphologyAnalyzed = TRUE
    /\ Len(reports) = 1

\* C2: an analyze whose loader returns a morphology leaves MorphologyAnalyzed
\* equal to what the analysis routine returned, whatever it was before; the
\* WARNING 'Corrupted morphology' is reported exactly when that is false, and
\* nothing is reported when it is true.
C2_FlagIsAnalysisResult ==
    [][(lastOp' = "analyze" /\ loading_result' # None) =>
          /\ MorphologyAnalyzed' = analysis_result'
          /\ reports' = IF analysis_result'
                        THEN <<>>
                        ELSE <<Report("WARNING", CORRUPTED_MORPHOLOGY)>>]_vars

\* A failed analysis right after a successful one: the flag went from true
\* to false.
C2_Witness ==
    /\ lastOp = "analyze"
    /\ loading_result # None
    /\ ~ analysis_result
    /\ ~ MorphologyAnalyzed
    /\ Len(calls) = 2
    /\ Len(reports) = 1

\* C3: export creates the directory and exports only when
\* ui_options.io.output_directory is set and the scene's OutputDirectory
\* exists. With output_directory None it reports only PATH_NOT_SET; otherwise,
\* with OutputDirectory missing, only INVALID_OUTPUT_PATH. In both cases the
\* disk is not written and the export routine is not called.
C3_ExportPathChecks ==
    [][lastOp' = "export" =>
          LET out == Io(heap).output_directory
              quiet == /\ fs' = fs
                       /\ written' = written
                       /\ WriteCalls(calls') = <<>>
          IN /\ out = None =>
                  reports' = <<Report("ERROR", PATH_NOT_SET)>> /\ quiet
             /\ (out # None /\ OutputDirectory \notin fs) =>
                  reports' = <<Report("ERROR", INVALID_OUTPUT_PATH)>> /\ quiet
             /\ WriteCalls(calls') # <<>> =>
                  out # None /\ OutputDirectory \in fs]_vars

\* An export stopped by the second check.
C3_Witness ==
    /\ lastOp = "export"
    /\ Io(heap).output_directory # None
    /\ reports = <<Report("ERROR", INVALID_OUTPUT_PATH)>>
    /\ OutputDirectory \notin fs

\* C4: an export that passes both checks calls clean_and_create_directory on
\* the analysis directory exactly when that directory does not exist, before
\* export_analysis_results, which is called once with the current
\* ui_morphology and the analysis directory; a directory that exists is
\* neither cleaned nor created again.
C4_CreateBeforeExport ==
    [][(/\ lastOp' = "export"
        /\ Io(heap).output_directory # None
        /\ OutputDirectory \in fs) =>
          LET d == Io(heap).analysis_directory
              export == Call("export_analysis_results", ui_morphology, d, None)
              create == Call("clean_and_create_directory", None, d, None)
          IN /\ WriteCalls(calls') =
                  IF d \in fs THEN <<export>> ELSE <<create, export>>
             /\ d \in fs => (fs' = fs /\ written \subseteq written')
             /\ d \in fs' /\ d \in written']_vars

\* An export that had to create the analysis directory.
C4_Witness ==
    /\ lastOp = "export"
    /\ Len(WriteCalls(calls)) = 2
    /\ ui_morphology # None

\* C5: a draw with ui_morphology None gives a disabled layout, whether
\* MorphologyAnalyzed is true or not, and the Analyze button is still there.
C5_DisabledWhenNotLoaded ==
    (lastOp = "draw" /\ ui_morphology = None) =>
        /\ layout.enabled = FALSE
        /\ Len(layout.items) >= 1
        /\ layout.items[1] = Item("operator:analyze.morphology", None)

\* A draw with the flag set and no morphology.
C5_Witness ==
    /\ lastOp = "draw"
    /\ ui_morphology = None
    /\ MorphologyAnalyzed
    /\ ~ layout.enabled

\* C6: a draw shows the analysis groups of the current ui_morphology and the
\* export button exactly when MorphologyAnalyzed is true; otherwise only the
\* Analyze button.
C6_ResultsIffAnalyzed ==
    lastOp = "draw" =>
        layout.items =
            IF MorphologyAnalyzed
            THEN <<Item("operator:analyze.morphology", None),
                   Item("analysis_groups", ui_morphology),
                   Item("operator:export.analysis_results", None)>>
            ELSE <<Item("operator:analyze.morphology", None)>>

\* A draw of the results of a loaded morphology.
C6_Witness ==
    /\ lastOp = "draw"
    /\ MorphologyAnalyzed
    /\ ui_morphology # None
    /\ Len(layout.items) = 3

C8_SketchCannotTouchOptions ==
    (lastOp = "analyze" /\ loading_result # None) =>
        /\ sketch_before # <<>>
        /\ sketch_after = sketch_before
        /\ calls[1].fn = "sketch_morphology_skeleton_guide"
        /\ calls[1].options # ui_options

\* The sketch routine changed the options it was given.
C8_Witness ==
    /\ lastOp = "analyze"
    /\ sketch_options # <<>>
    /\ sketch_options[2] # sketch_after[2]

\* C9: register_panel registers the panel, the analyze operator and the
\* export operator, in that order; unregister_panel removes them in the same
\* order; after a register and an unregister the registry holds none of them.
C9_RegistrationOrder ==
    /\ lastOp = "register" =>
          /\ calls = <<Call("register_class:AnalysisPanel", None, None, None),
                       Call("register_class:AnalyzeMorphology", None, None, None),
                       Call("register_class:ExportAnalysisResults", None, None, None)>>
          /\ Classes \subseteq registry
    /\ lastOp = "unregister" =>
          /\ calls = <<Call("unregister_class:AnalysisPanel", None, None, None),
                       Call("unregister_class:AnalyzeMorphology", None, None, None),
                       Call("unregister_class:ExportAnalysisResults", None, None, None)>>
          /\ registry \cap Classes = {}

\* The add-on was enabled and disabled again.
C9_Witness ==
    /\ lastOp = "unregister"
    /\ registry = {}
    /\ Len(calls) = 3

\* C10: MorphologyAnalyzed true implies ui_morphology is not None, so draw
\* never hands None to add_analysis_groups_to_panel and never shows the
\* export button in a disabled panel.
C10_AnalyzedImpliesLoaded ==
    /\ MorphologyAnalyzed => ui_morphology # None
    /\ lastOp = "draw" =>
          /\ Item("analysis_groups", None) \notin
                {layout.items[i] : i \in DOMAIN layout.items}
          /\ (Len(layout.items) = 3 => layout.enabled)

====
